---- MODULE Spec2Model ----
(***************************************************************************)
(* Session synchronisation and persistence engine of gatha-transcribe:     *)
(* the connection handler (src/src/websocket.rs), the in-memory session    *)
(* store (src/src/session_store.rs), the durable session repository        *)
(* (src/src/db.rs) and the persistence task (src/src/lib.rs).              *)
(*                                                                         *)
(* Every await on the session store or on the repository is one step, so   *)
(* the interleavings of the tokio tasks at their suspension points are the *)
(* interleavings of the actions below.  f64 values are abstract numbers.   *)
(***************************************************************************)
EXTENDS Integers, Sequences, FiniteSets, TLC

\* ------------------------------------------------------------------ bounds

\* Largest version number a client sends (versions are i64 in the code).
MaxVersion == 2

\* Text frames the clients send in a run, over all sockets.
MaxFrames == 2

\* Sockets opened in a run, over all connection tasks.
MaxSockets == 2

\* Connection handler tasks that may run at the same time.
Conns == {"A", "B"}

\* Session keys (user_id, video_id).
Keys == {"k1", "k2"}

\* Values clients send for the three playback fields.
TimeVals == {10}
SpeedVals == {2}
VolumeVals == {0}

Versions == 0..MaxVersion

\* ------------------------------------------------------------- data model

NoSession == [none |-> TRUE]

\* A durable row that serde_json cannot decode as a TranscriptionSession.
Garbage == [garbage |-> TRUE]

\* NewSession with current_time set to 1.0 like the two fields after it.
NewSessionAllOnes(k) ==
    [key |-> k, current_time |-> 1, playback_speed |-> 1, volume |-> 1,
     version |-> 0, dirty |-> FALSE]

\* NewSession with the new session marked dirty.
NewSessionDirty(k) ==
    [key |-> k, current_time |-> 0, playback_speed |-> 1, volume |-> 1,
     version |-> 0, dirty |-> TRUE]

\* TranscriptionSession as handle_socket builds it for a key never seen.
NewSession(k) ==
    [key |-> k, current_time |-> 0, playback_speed |-> 1, volume |-> 1,
     version |-> 0, dirty |-> FALSE]

\* serde_json::to_string(&session): dirty is #[serde(skip)].
Serialize(s) ==
    [key |-> s.key, current_time |-> s.current_time,
     playback_speed |-> s.playback_speed, volume |-> s.volume,
     version |-> s.version]

\* serde_json::from_str::<TranscriptionSession>: a skipped field takes its
\* Default (false); NoSession stands for Err.
Deserialize(json) ==
    IF json = Garbage THEN NoSession
    ELSE [key |-> json.key, current_time |-> json.current_time,
          playback_speed |-> json.playback_speed, volume |-> json.volume,
          version |-> json.version, dirty |-> FALSE]

\* messages::SessionState built by send_state_sync.
SessionStateOf(s) ==
    [current_time |-> s.current_time, playback_speed |-> s.playback_speed,
     volume |-> s.volume, version |-> s.version]

\* The text frames a client may send: the four ClientMessage kinds and a
\* text that serde_json cannot parse as any of them.
PositionMsgs ==
    {[type |-> "UpdatePlaybackPosition", current_time |-> t, version |-> v] :
        t \in TimeVals, v \in Versions}
SpeedMsgs ==
    {[type |-> "UpdatePlaybackSpeed", playback_speed |-> p, version |-> v] :
        p \in SpeedVals, v \in Versions}
VolumeMsgs ==
    {[type |-> "UpdateVolume", volume |-> l, version |-> v] :
        l \in VolumeVals, v \in Versions}
SyncMsgs ==
    {[type |-> "SyncState", current_time |-> t, playback_speed |-> p,
      volume |-> l, version |-> v] :
        t \in TimeVals, p \in SpeedVals, l \in VolumeVals, v \in Versions}
Malformed == [type |-> "Malformed"]
FieldMsgs == PositionMsgs \cup SpeedMsgs \cup VolumeMsgs
ClientMsgs == FieldMsgs \cup SyncMsgs
TextFrames == ClientMsgs \cup {Malformed}

NoMsg == [type |-> "none"]

\* No session store call failed.
NoError == [task |-> "none", op |-> "none"]

\* The persistence task, as the maker of a session store call.
Persistence == "persistence"

VARIABLES
    store,      \* InMemorySessionStore.sessions: key -> session or NoSession
    db,         \* transcription_sessions.state_json: key -> row or NoSession
    key,        \* the session_key of each connection task
    pc,         \* where each connection task stands in handle_socket
    session,    \* the local `session` of the function a task is running
    msg,        \* the ClientMessage handle_text_message is processing
    result,     \* what handle_text_message returned to the receive loop
    sent,       \* the ServerMessages on each socket the client has not read
    spc,        \* where the persistence task stands in its loop body
    toClean,    \* sessions_to_clean of the persistence task
    nFrames,    \* text frames received so far
    nSockets,   \* sockets opened so far
    unflushed,  \* history: key -> an accepted message changed the stored
                \* session after its creation and its last successful flush
    touched,    \* history: the keys for which a message was ever accepted
    closed,     \* history: key -> the stored session when the last socket of
                \* the key closed, until the next snapshot for the key is sent
    applied,    \* history: key -> the session the last accepted message stored
    batchError, \* the batch whose failure the step just taken logged ("Failed
                \* to batch persist sessions"), <<>> after any other step
    storeError, \* the session store call that returned Err in the step just
                \* taken and the task that made it, NoError after other steps
    serializeError  \* the keys of the sessions for which the step just taken
                \* logged "Failed to serialize session", {} after other steps

connVars == <<pc, session, msg, result, sent>>
schedVars == <<spc, toClean>>
history == <<unflushed, touched, closed, applied>>
vars == <<store, db, key, connVars, schedVars, nFrames, nSockets, history,
          batchError, storeError, serializeError>>

\* ---------------------------------------------------------- session store

\* InMemorySessionStore::get: a clone of the entry, or none.
StoreGet(st, k) == st[k]

\* StoreSet with an existing entry kept (entry(key).or_insert(session)).
StoreSetIfAbsent(st, k, s) ==
    IF st[k] = NoSession THEN [st EXCEPT ![k] = s] ELSE st

\* InMemorySessionStore::set: HashMap::insert, a full replace.
StoreSet(st, k, s) == [st EXCEPT ![k] = s]

\* InMemorySessionStore::delete: HashMap::remove.
StoreDelete(st, k) == [st EXCEPT ![k] = NoSession]

\* InMemorySessionStore::list_all: clones of all entries, in the HashMap's
\* iteration order, which is arbitrary: the set of the Vecs it may return.
StoreListAll(st) ==
    LET present == {k \in Keys : st[k] # NoSession}
        n == Cardinality(present)
    IN  {[i \in 1..n |-> [key |-> o[i], session |-> st[o[i]]]] :
            o \in {f \in [1..n -> present] :
                     \A i, j \in 1..n : f[i] = f[j] => i = j}}

\* ------------------------------------------------------ durable repository

\* Database::get_session, when the query succeeds.
DbGetSession(d, k) == d[k]

\* DbUpsertSession without the ON CONFLICT ... DO UPDATE clause taking
\* effect: an existing row is kept.
DbInsertSession(d, k, json) ==
    IF d[k] = NoSession THEN [d EXCEPT ![k] = json] ELSE d

\* Database::upsert_session, when the statement succeeds.
DbUpsertSession(d, k, json) == [d EXCEPT ![k] = json]

\* The statements of upsert_sessions_batch run on the transaction, in order.
RECURSIVE TxExecute(_, _, _)
TxExecute(tx, entries, n) ==
    IF n = 0 THEN tx
    ELSE LET e == entries[n]
         IN  DbUpsertSession(TxExecute(tx, entries, n - 1), e.key, e.json)

\* DbUpsertSessionsBatch with the statements run on the pool, outside any
\* transaction: those before the failing one stay.
DbUpsertSessionsNoTx(d, entries, failAt) ==
    IF Len(entries) = 0 THEN [ok |-> TRUE, db |-> d]
    ELSE IF failAt = 0 THEN [ok |-> FALSE, db |-> d]
    ELSE IF failAt <= Len(entries)
         THEN [ok |-> FALSE, db |-> TxExecute(d, entries, failAt - 1)]
    ELSE [ok |-> TRUE, db |-> TxExecute(d, entries, Len(entries))]

\* Database::upsert_sessions_batch.  failAt = 0: begin fails; i in 1..Len:
\* the i-th statement fails; Len + 1: commit fails; Len + 2: nothing fails.
\* An error returns through `?` and drops the transaction, which rolls back.
DbUpsertSessionsBatch(d, entries, failAt) ==
    IF Len(entries) = 0 THEN [ok |-> TRUE, db |-> d]
    ELSE IF failAt <= Len(entries) + 1 THEN [ok |-> FALSE, db |-> d]
    ELSE [ok |-> TRUE, db |-> TxExecute(d, entries, Len(entries))]

\* ------------------------------------------------------ connection handler

IsFieldMsg(m) ==
    m.type \in {"UpdatePlaybackPosition", "UpdatePlaybackSpeed", "UpdateVolume"}

\* Accepts with the check `>` in place of `>=`.
AcceptsNewerOnly(s, m) ==
    \/ m.type = "SyncState"
    \/ IsFieldMsg(m) /\ m.version > s.version

\* Accepts with no version check at all.
AcceptsAlways(s, m) == TRUE

\* Accepts with the version check applied to SyncState too.
AcceptsVersioned(s, m) == m.version >= s.version

\* handle_text_message: whether the message passes the version check.
Accepts(s, m) ==
    \/ m.type = "SyncState"
    \/ IsFieldMsg(m) /\ m.version >= s.version

\* ApplyMsg without `session.version = ...version`.
ApplyMsgKeepsVersion(s, m) ==
    CASE m.type = "UpdatePlaybackPosition" ->
            [s EXCEPT !.current_time = m.current_time, !.dirty = TRUE]
      [] m.type = "UpdatePlaybackSpeed" ->
            [s EXCEPT !.playback_speed = m.playback_speed, !.dirty = TRUE]
      [] m.type = "UpdateVolume" ->
            [s EXCEPT !.volume = m.volume, !.dirty = TRUE]
      [] m.type = "SyncState" ->
            [s EXCEPT !.current_time = m.current_time,
                      !.playback_speed = m.playback_speed,
                      !.volume = m.volume, !.dirty = TRUE]

\* ApplyMsg without `session.dirty = true`.
ApplyMsgKeepsFlag(s, m) ==
    CASE m.type = "UpdatePlaybackPosition" ->
            [s EXCEPT !.current_time = m.current_time, !.version = m.version]
      [] m.type = "UpdatePlaybackSpeed" ->
            [s EXCEPT !.playback_speed = m.playback_speed, !.version = m.version]
      [] m.type = "UpdateVolume" ->
            [s EXCEPT !.volume = m.volume, !.version = m.version]
      [] m.type = "SyncState" ->
            [s EXCEPT !.current_time = m.current_time,
                      !.playback_speed = m.playback_speed,
                      !.volume = m.volume, !.version = m.version]

\* handle_text_message: the session as the accepted message changes it.
ApplyMsg(s, m) ==
    CASE m.type = "UpdatePlaybackPosition" ->
            [s EXCEPT !.current_time = m.current_time,
                      !.version = m.version, !.dirty = TRUE]
      [] m.type = "UpdatePlaybackSpeed" ->
            [s EXCEPT !.playback_speed = m.playback_speed,
                      !.version = m.version, !.dirty = TRUE]
      [] m.type = "UpdateVolume" ->
            [s EXCEPT !.volume = m.volume,
                      !.version = m.version, !.dirty = TRUE]
      [] m.type = "SyncState" ->
            [s EXCEPT !.current_time = m.current_time,
                      !.playback_speed = m.playback_speed,
                      !.volume = m.volume,
                      !.version = m.version, !.dirty = TRUE]

\* What follows load_or_create_session in handle_socket up to the receive
\* loop: get_video, send_video_metadata, send_state_sync.  These touch only
\* the task's own socket and the video catalogue, so they are taken together
\* with the step that resolved the session.
AttachOutcomes == {"synced", "no_video", "metadata_failed", "sync_failed"}

VideoMetadataMsg == [type |-> "VideoMetadata"]

\* send_state_sync: the ServerMessage::StateSync built from the session.
StateSyncMsg(s) == [type |-> "StateSync", session |-> SessionStateOf(s)]

\* InitialMessages with send_state_sync called before send_video_metadata.
InitialMessagesSwapped(s, o) ==
    CASE o = "synced" -> <<StateSyncMsg(s), VideoMetadataMsg>>
      [] o = "sync_failed" -> <<VideoMetadataMsg>>
      [] OTHER -> <<>>

\* The messages handle_socket sends for session s before the loop.
InitialMessages(s, o) ==
    CASE o = "synced" -> <<VideoMetadataMsg, StateSyncMsg(s)>>
      [] o = "sync_failed" -> <<VideoMetadataMsg>>
      [] OTHER -> <<>>

\* handle_socket from the resolved session s to the loop, or to its return
\* when the video is missing or a send fails (no cleanup is done then).
Greet(c, s, o) ==
    /\ sent' = [sent EXCEPT ![c] = InitialMessages(s, o)]
    /\ pc' = [pc EXCEPT ![c] = IF o = "synced" THEN "loop" ELSE "done"]
    /\ session' = [session EXCEPT ![c] = NoSession]
    /\ closed' = IF o = "synced" THEN [closed EXCEPT ![key[c]] = NoSession]
                 ELSE closed

\* handle_socket starts for a new socket; load_or_create_session finds the
\* session in memory.
AttachFromMemory(c, o) ==
    /\ pc[c] \in {"idle", "done"}
    /\ batchError' = <<>>
    /\ storeError' = NoError
    /\ serializeError' = {}
    /\ nSockets < MaxSockets
    /\ StoreGet(store, key[c]) # NoSession
    /\ Greet(c, StoreGet(store, key[c]), o)
    /\ nSockets' = nSockets + 1
    /\ UNCHANGED <<store, db, key, msg, result, schedVars, nFrames,
                   unflushed, touched, applied>>

\* handle_socket starts for a new socket; load_or_create_session does not
\* find the session in memory.
AttachMiss(c) ==
    /\ pc[c] \in {"idle", "done"}
    /\ batchError' = <<>>
    /\ storeError' = NoError
    /\ serializeError' = {}
    /\ nSockets < MaxSockets
    /\ StoreGet(store, key[c]) = NoSession
    /\ pc' = [pc EXCEPT ![c] = "attach_db"]
    /\ sent' = [sent EXCEPT ![c] = <<>>]
    /\ nSockets' = nSockets + 1
    /\ UNCHANGED <<store, db, key, session, msg, result, schedVars, nFrames,
                   history>>

\* load_or_create_session: get_session returned Ok.  A decodable row is the
\* session, marked clean; no row or an undecodable one gives a new session.
AttachDb(c) ==
    /\ pc[c] = "attach_db"
    /\ batchError' = <<>>
    /\ storeError' = NoError
    /\ serializeError' = {}
    /\ LET row == DbGetSession(db, key[c])
           dec == IF row = NoSession THEN NoSession ELSE Deserialize(row)
       IN  IF dec # NoSession
           THEN /\ session' = [session EXCEPT ![c] = [dec EXCEPT !.dirty = FALSE]]
                /\ pc' = [pc EXCEPT ![c] = "set_loaded"]
           ELSE /\ session' = [session EXCEPT ![c] = NewSession(key[c])]
                /\ pc' = [pc EXCEPT ![c] = "set_new"]
    /\ UNCHANGED <<store, db, key, msg, result, sent, schedVars, nFrames,
                   nSockets, history>>

\* AttachDbErr with the Err of get_session returned by load_or_create_session:
\* handle_socket closes the socket and returns.
AttachDbErrCloses(c) ==
    /\ pc[c] = "attach_db"
    /\ batchError' = <<>>
    /\ storeError' = NoError
    /\ serializeError' = {}
    /\ pc' = [pc EXCEPT ![c] = "done"]
    /\ UNCHANGED <<store, db, key, session, msg, result, sent, schedVars,
                   nFrames, nSockets, history>>

\* load_or_create_session: get_session returned Err: a new session.
AttachDbErr(c) ==
    /\ pc[c] = "attach_db"
    /\ batchError' = <<>>
    /\ storeError' = NoError
    /\ serializeError' = {}
    /\ session' = [session EXCEPT ![c] = NewSession(key[c])]
    /\ pc' = [pc EXCEPT ![c] = "set_new"]
    /\ UNCHANGED <<store, db, key, msg, result, sent, schedVars, nFrames,
                   nSockets, history>>

\* load_or_create_session: the loaded or the new session is put in memory
\* and returned.
AttachSet(c, o) ==
    /\ pc[c] \in {"set_loaded", "set_new"}
    /\ batchError' = <<>>
    /\ storeError' = NoError
    /\ serializeError' = {}
    /\ store' = StoreSet(store, key[c], session[c])
    /\ Greet(c, session[c], o)
    /\ unflushed' = [unflushed EXCEPT ![key[c]] = FALSE]
    /\ UNCHANGED <<db, key, msg, result, schedVars, nFrames, nSockets, touched,
                   applied>>

\* The client reads what the server has sent.  Its reading changes nothing
\* the server reads, so the client is taken to read before it sends.
ClientRead(c) ==
    /\ pc[c] = "loop"
    /\ batchError' = <<>>
    /\ storeError' = NoError
    /\ serializeError' = {}
    /\ sent[c] # <<>>
    /\ sent' = [sent EXCEPT ![c] = <<>>]
    /\ UNCHANGED <<store, db, key, pc, session, msg, result, schedVars,
                   nFrames, nSockets, history>>

\* Receive with the next frame read before handle_text_message has returned
\* (the handling spawned off the loop).
ReceiveEarly(c, m) ==
    /\ pc[c] \in {"loop", "apply", "handled"}
    /\ batchError' = <<>>
    /\ storeError' = NoError
    /\ serializeError' = {}
    /\ sent[c] = <<>>
    /\ nFrames < MaxFrames
    /\ msg' = [msg EXCEPT ![c] = m]
    /\ LET found == StoreGet(store, key[c])
       IN  IF m = Malformed \/ found = NoSession
           THEN /\ result' = [result EXCEPT ![c] = "err"]
                /\ pc' = [pc EXCEPT ![c] = "handled"]
                /\ UNCHANGED session
           ELSE /\ session' = [session EXCEPT ![c] = found]
                /\ pc' = [pc EXCEPT ![c] = "apply"]
                /\ UNCHANGED result
    /\ nFrames' = nFrames + 1
    /\ UNCHANGED <<store, db, key, sent, schedVars, nSockets, history>>

\* Receive with a missing session replaced by a new one (unwrap_or_else in
\* place of ok_or_else) and the message handled against it.
ReceiveCreates(c, m) ==
    /\ pc[c] = "loop"
    /\ batchError' = <<>>
    /\ storeError' = NoError
    /\ serializeError' = {}
    /\ sent[c] = <<>>
    /\ nFrames < MaxFrames
    /\ msg' = [msg EXCEPT ![c] = m]
    /\ LET found == StoreGet(store, key[c])
       IN  IF m = Malformed
           THEN /\ result' = [result EXCEPT ![c] = "err"]
                /\ pc' = [pc EXCEPT ![c] = "handled"]
                /\ UNCHANGED session
           ELSE /\ session' = [session EXCEPT ![c] =
                                  IF found = NoSession
                                  THEN NewSession(key[c]) ELSE found]
                /\ pc' = [pc EXCEPT ![c] = "apply"]
                /\ UNCHANGED result
    /\ nFrames' = nFrames + 1
    /\ UNCHANGED <<store, db, key, sent, schedVars, nSockets, history>>

\* The loop receives a text frame; handle_text_message parses it and reads
\* the session from memory.  A parse error or a missing session returns Err.
Receive(c, m) ==
    /\ pc[c] = "loop"
    /\ batchError' = <<>>
    /\ storeError' = NoError
    /\ serializeError' = {}
    /\ sent[c] = <<>>
    /\ nFrames < MaxFrames
    /\ msg' = [msg EXCEPT ![c] = m]
    /\ LET found == StoreGet(store, key[c])
       IN  IF m = Malformed \/ found = NoSession
           THEN /\ result' = [result EXCEPT ![c] = "err"]
                /\ pc' = [pc EXCEPT ![c] = "handled"]
                /\ UNCHANGED session
           ELSE /\ session' = [session EXCEPT ![c] = found]
                /\ pc' = [pc EXCEPT ![c] = "apply"]
                /\ UNCHANGED result
    /\ nFrames' = nFrames + 1
    /\ UNCHANGED <<store, db, key, sent, schedVars, nSockets, history>>

\* Apply with list_all a live view of the store: the set shows in the
\* entries the persistence task holds.
ApplyShowsInList(c) ==
    /\ pc[c] = "apply"
    /\ batchError' = <<>>
    /\ storeError' = NoError
    /\ serializeError' = {}
    /\ IF Accepts(session[c], msg[c])
       THEN /\ session' = [session EXCEPT ![c] = ApplyMsg(@, msg[c])]
            /\ store' = StoreSet(store, key[c], ApplyMsg(session[c], msg[c]))
            /\ toClean' =
                 [i \in 1..Len(toClean) |->
                    IF toClean[i].key = key[c]
                    THEN [toClean[i] EXCEPT
                            !.session = ApplyMsg(session[c], msg[c])]
                    ELSE toClean[i]]
            /\ unflushed' = [unflushed EXCEPT ![key[c]] = TRUE]
            /\ touched' = touched \cup {key[c]}
            /\ applied' =
                 [applied EXCEPT ![key[c]] = ApplyMsg(session[c], msg[c])]
       ELSE UNCHANGED <<session, store, toClean, unflushed, touched, applied>>
    /\ result' = [result EXCEPT ![c] = "ok"]
    /\ pc' = [pc EXCEPT ![c] = "handled"]
    /\ UNCHANGED <<db, key, msg, sent, spc, nFrames, nSockets, closed>>

\* Apply as one atomic read-modify-write: the version check and the change
\* are made on the session stored now, not on the copy read before.
ApplyOnStored(c) ==
    /\ pc[c] = "apply"
    /\ batchError' = <<>>
    /\ storeError' = NoError
    /\ serializeError' = {}
    /\ LET cur == IF store[key[c]] = NoSession THEN session[c]
                  ELSE store[key[c]]
       IN  IF Accepts(cur, msg[c])
           THEN /\ session' = [session EXCEPT ![c] = ApplyMsg(cur, msg[c])]
                /\ store' = StoreSet(store, key[c], ApplyMsg(cur, msg[c]))
                /\ unflushed' = [unflushed EXCEPT ![key[c]] = TRUE]
                /\ touched' = touched \cup {key[c]}
                /\ applied' =
                     [applied EXCEPT ![key[c]] = ApplyMsg(cur, msg[c])]
           ELSE UNCHANGED <<session, store, unflushed, touched, applied>>
    /\ result' = [result EXCEPT ![c] = "ok"]
    /\ pc' = [pc EXCEPT ![c] = "handled"]
    /\ UNCHANGED <<db, key, msg, sent, schedVars, nFrames, nSockets, closed>>

\* Apply with a message that fails the version check answered on the socket.
ApplyAnswersStale(c) ==
    /\ pc[c] = "apply"
    /\ batchError' = <<>>
    /\ storeError' = NoError
    /\ serializeError' = {}
    /\ IF Accepts(session[c], msg[c])
       THEN /\ session' = [session EXCEPT ![c] = ApplyMsg(@, msg[c])]
            /\ store' = StoreSet(store, key[c], ApplyMsg(session[c], msg[c]))
            /\ unflushed' = [unflushed EXCEPT ![key[c]] = TRUE]
            /\ touched' = touched \cup {key[c]}
            /\ applied' =
                 [applied EXCEPT ![key[c]] = ApplyMsg(session[c], msg[c])]
            /\ UNCHANGED sent
       ELSE /\ sent' = [sent EXCEPT ![c] =
                            Append(@, [type |-> "TestMessage"])]
            /\ UNCHANGED <<session, store, unflushed, touched, applied>>
    /\ result' = [result EXCEPT ![c] = "ok"]
    /\ pc' = [pc EXCEPT ![c] = "handled"]
    /\ UNCHANGED <<db, key, msg, schedVars, nFrames, nSockets, closed>>

\* handle_text_message: the version check, and the set when it passes.
Apply(c) ==
    /\ pc[c] = "apply"
    /\ batchError' = <<>>
    /\ storeError' = NoError
    /\ serializeError' = {}
    /\ IF Accepts(session[c], msg[c])
       THEN /\ session' = [session EXCEPT ![c] = ApplyMsg(@, msg[c])]
            /\ store' = StoreSet(store, key[c], ApplyMsg(session[c], msg[c]))
            /\ unflushed' = [unflushed EXCEPT ![key[c]] = TRUE]
            /\ touched' = touched \cup {key[c]}
            /\ applied' =
                 [applied EXCEPT ![key[c]] = ApplyMsg(session[c], msg[c])]
       ELSE UNCHANGED <<session, store, unflushed, touched, applied>>
    /\ result' = [result EXCEPT ![c] = "ok"]
    /\ pc' = [pc EXCEPT ![c] = "handled"]
    /\ UNCHANGED <<db, key, msg, sent, schedVars, nFrames, nSockets, closed>>

\* Continue with an Err of handle_text_message ending the loop: the cleanup
\* starts as after a close frame.
ContinueBreaksOnErr(c) ==
    /\ pc[c] = "handled"
    /\ batchError' = <<>>
    /\ storeError' = NoError
    /\ serializeError' = {}
    /\ msg' = [msg EXCEPT ![c] = NoMsg]
    /\ result' = [result EXCEPT ![c] = "none"]
    /\ IF result[c] = "err"
       THEN LET found == StoreGet(store, key[c])
            IN  /\ session' = [session EXCEPT ![c] = found]
                /\ pc' = [pc EXCEPT ![c] =
                             IF found # NoSession /\ found.dirty
                             THEN "flush" ELSE "delete"]
                /\ closed' = [closed EXCEPT ![key[c]] = found]
       ELSE /\ session' = [session EXCEPT ![c] = NoSession]
            /\ pc' = [pc EXCEPT ![c] = "loop"]
            /\ UNCHANGED closed
    /\ UNCHANGED <<store, db, key, sent, schedVars, nFrames, nSockets,
                   unflushed, touched, applied>>

\* handle_text_message returned; an Err is logged and the loop goes on.
Continue(c) ==
    /\ pc[c] = "handled"
    /\ batchError' = <<>>
    /\ storeError' = NoError
    /\ serializeError' = {}
    /\ msg' = [msg EXCEPT ![c] = NoMsg]
    /\ result' = [result EXCEPT ![c] = "none"]
    /\ session' = [session EXCEPT ![c] = NoSession]
    /\ pc' = [pc EXCEPT ![c] = "loop"]
    /\ UNCHANGED <<store, db, key, sent, schedVars, nFrames, nSockets, history>>

\* The loop receives a frame that is neither text nor close: ignored.
ReceiveOther(c) ==
    /\ pc[c] = "loop"
    /\ sent[c] = <<>>
    /\ UNCHANGED vars

\* The loop receives a close frame, a transport error or end of stream and
\* ends; the cleanup reads the session again, and a dirty one is flushed.
Close(c) ==
    /\ pc[c] = "loop"
    /\ batchError' = <<>>
    /\ storeError' = NoError
    /\ serializeError' = {}
    /\ sent[c] = <<>>
    /\ LET found == StoreGet(store, key[c])
       IN  /\ session' = [session EXCEPT ![c] = found]
           /\ pc' = [pc EXCEPT ![c] =
                        IF found # NoSession /\ found.dirty
                        THEN "flush" ELSE "delete"]
           /\ closed' = [closed EXCEPT ![key[c]] = found]
    /\ UNCHANGED <<store, db, key, msg, result, sent, schedVars, nFrames,
                   nSockets, unflushed, touched, applied>>

\* history: a successful write of json for key k covers the accepted
\* messages when json is the stored session as it is now.
Covered(k, json) ==
    store[k] # NoSession /\ Serialize(store[k]) = json

\* handle_socket cleanup: upsert_session succeeded.
DetachFlush(c) ==
    /\ pc[c] = "flush"
    /\ batchError' = <<>>
    /\ storeError' = NoError
    /\ serializeError' = {}
    /\ db' = DbUpsertSession(db, key[c], Serialize(session[c]))
    /\ pc' = [pc EXCEPT ![c] = "delete"]
    /\ unflushed' = [unflushed EXCEPT ![key[c]] =
                        @ /\ ~Covered(key[c], Serialize(session[c]))]
    /\ UNCHANGED <<store, key, session, msg, result, sent, schedVars, nFrames,
                   nSockets, touched, closed, applied>>

\* DetachFlushErr with the task returning after the warning, the session
\* left in memory.
DetachFlushErrReturns(c) ==
    /\ pc[c] = "flush"
    /\ batchError' = <<>>
    /\ storeError' = NoError
    /\ serializeError' = {}
    /\ pc' = [pc EXCEPT ![c] = "done"]
    /\ session' = [session EXCEPT ![c] = NoSession]
    /\ UNCHANGED <<store, db, key, msg, result, sent, schedVars, nFrames,
                   nSockets, history>>

\* handle_socket cleanup: upsert_session failed and a warning is logged (or
\* serde_json::to_string failed and an error is logged): nothing is written.
DetachFlushErr(c) ==
    /\ pc[c] = "flush"
    /\ batchError' = <<>>
    /\ storeError' = NoError
    /\ serializeError' = {}
    /\ pc' = [pc EXCEPT ![c] = "delete"]
    /\ UNCHANGED <<store, db, key, session, msg, result, sent, schedVars,
                   nFrames, nSockets, history>>

\* DetachDelete with the cleanup inside the receive loop and no break: the
\* task removes the session and receives again.
DetachDeleteReceivesAgain(c) ==
    /\ pc[c] = "delete"
    /\ batchError' = <<>>
    /\ storeError' = NoError
    /\ serializeError' = {}
    /\ store' = StoreDelete(store, key[c])
    /\ session' = [session EXCEPT ![c] = NoSession]
    /\ pc' = [pc EXCEPT ![c] = "loop"]
    /\ unflushed' = [unflushed EXCEPT ![key[c]] = FALSE]
    /\ UNCHANGED <<db, key, msg, result, sent, schedVars, nFrames, nSockets,
                   touched, closed, applied>>

\* handle_socket cleanup: the session is removed from memory; the task ends.
DetachDelete(c) ==
    /\ pc[c] = "delete"
    /\ batchError' = <<>>
    /\ storeError' = NoError
    /\ serializeError' = {}
    /\ store' = StoreDelete(store, key[c])
    /\ session' = [session EXCEPT ![c] = NoSession]
    /\ pc' = [pc EXCEPT ![c] = "done"]
    /\ unflushed' = [unflushed EXCEPT ![key[c]] = FALSE]
    /\ UNCHANGED <<db, key, msg, result, sent, schedVars, nFrames, nSockets,
                   touched, closed, applied>>

\* --------------------------------- connection handler, session store Err

\* An Err of session store call op made by task t.
StoreErr(t, op) == [task |-> t, op |-> op]

\* load_or_create_session: session_store.get returned Err; `if let
\* Ok(Some(..))` does not match and the repository is tried.
AttachGetErr(c) ==
    /\ pc[c] \in {"idle", "done"}
    /\ batchError' = <<>>
    /\ storeError' = StoreErr(c, "get")
    /\ serializeError' = {}
    /\ nSockets < MaxSockets
    /\ pc' = [pc EXCEPT ![c] = "attach_db"]
    /\ sent' = [sent EXCEPT ![c] = <<>>]
    /\ nSockets' = nSockets + 1
    /\ UNCHANGED <<store, db, key, session, msg, result, schedVars, nFrames,
                   history>>

\* load_or_create_session: the set of the session loaded from the
\* repository returned Err; `let _ =` drops it and the session is returned.
AttachSetLoadedErr(c, o) ==
    /\ pc[c] = "set_loaded"
    /\ batchError' = <<>>
    /\ storeError' = StoreErr(c, "set")
    /\ serializeError' = {}
    /\ Greet(c, session[c], o)
    /\ UNCHANGED <<store, db, key, msg, result, schedVars, nFrames, nSockets,
                   unflushed, touched, applied>>

\* load_or_create_session: the set of the new session returned Err, which
\* `?` returns; handle_socket closes the socket and returns.
AttachSetNewErr(c) ==
    /\ pc[c] = "set_new"
    /\ batchError' = <<>>
    /\ storeError' = StoreErr(c, "set")
    /\ serializeError' = {}
    /\ pc' = [pc EXCEPT ![c] = "done"]
    /\ session' = [session EXCEPT ![c] = NoSession]
    /\ UNCHANGED <<store, db, key, msg, result, sent, schedVars, nFrames,
                   nSockets, history>>

\* handle_text_message: the frame parses and session_store.get returned
\* Err, which `?` returns.
ReceiveGetErr(c, m) ==
    /\ pc[c] = "loop"
    /\ batchError' = <<>>
    /\ storeError' = StoreErr(c, "get")
    /\ serializeError' = {}
    /\ sent[c] = <<>>
    /\ nFrames < MaxFrames
    /\ m # Malformed
    /\ msg' = [msg EXCEPT ![c] = m]
    /\ result' = [result EXCEPT ![c] = "err"]
    /\ pc' = [pc EXCEPT ![c] = "handled"]
    /\ nFrames' = nFrames + 1
    /\ UNCHANGED <<store, db, key, session, sent, schedVars, nSockets, history>>

\* handle_text_message: the version check passed and session_store.set
\* returned Err, which `?` returns.
ApplySetErr(c) ==
    /\ pc[c] = "apply"
    /\ batchError' = <<>>
    /\ storeError' = StoreErr(c, "set")
    /\ serializeError' = {}
    /\ Accepts(session[c], msg[c])
    /\ result' = [result EXCEPT ![c] = "err"]
    /\ pc' = [pc EXCEPT ![c] = "handled"]
    /\ UNCHANGED <<store, db, key, session, msg, sent, schedVars, nFrames,
                   nSockets, history>>

\* handle_socket cleanup: session_store.get returned Err; `if let
\* Ok(Some(..))` does not match, nothing is flushed and the delete follows.
CloseGetErr(c) ==
    /\ pc[c] = "loop"
    /\ batchError' = <<>>
    /\ storeError' = StoreErr(c, "get")
    /\ serializeError' = {}
    /\ sent[c] = <<>>
    /\ pc' = [pc EXCEPT ![c] = "delete"]
    /\ closed' = [closed EXCEPT ![key[c]] = store[key[c]]]
    /\ UNCHANGED <<store, db, key, session, msg, result, sent, schedVars,
                   nFrames, nSockets, unflushed, touched, applied>>

\* handle_socket cleanup: session_store.delete returned Err; a warning is
\* logged and the task ends.
DetachDeleteErr(c) ==
    /\ pc[c] = "delete"
    /\ batchError' = <<>>
    /\ storeError' = StoreErr(c, "delete")
    /\ serializeError' = {}
    /\ session' = [session EXCEPT ![c] = NoSession]
    /\ pc' = [pc EXCEPT ![c] = "done"]
    /\ UNCHANGED <<store, db, key, msg, result, sent, schedVars, nFrames,
                   nSockets, history>>

\* -------------------------------------------------------- persistence task

\* DirtyOf without the `if session.dirty` filter.
DirtyOfAll(sessions) == sessions

\* The sessions of a list_all result that are dirty, in its order.
DirtyOf(sessions) == SelectSeq(sessions, LAMBDA e : e.session.dirty)

\* dirty_sessions: the (user_id, video_id, state_json) of sessions_to_clean.
BatchOf(clean) ==
    [i \in 1..Len(clean) |->
        [key |-> clean[i].key, json |-> Serialize(clean[i].session)]]

\* A tick: list_all, and the dirty sessions are collected; with none the
\* task waits for the next tick.
Tick ==
    /\ spc = "tick"
    /\ batchError' = <<>>
    /\ storeError' = NoError
    /\ serializeError' = {}
    /\ \E sessions \in StoreListAll(store) :
          /\ toClean' = DirtyOf(sessions)
          /\ spc' = IF Len(DirtyOf(sessions)) = 0 THEN "tick" ELSE "upsert"
    /\ UNCHANGED <<store, db, key, connVars, nFrames, nSockets, history>>

\* TickSerializeErr with a serialization Err ending the tick: nothing is
\* persisted in it.
TickSerializeErrEndsTick ==
    /\ spc = "tick"
    /\ batchError' = <<>>
    /\ storeError' = NoError
    /\ \E sessions \in StoreListAll(store) :
          \E bad \in SUBSET {k \in Keys : store[k] # NoSession /\ store[k].dirty} :
              /\ bad # {}
              /\ serializeError' = bad
    /\ toClean' = <<>>
    /\ spc' = "tick"
    /\ UNCHANGED <<store, db, key, connVars, nFrames, nSockets, history>>

\* A tick in which serde_json::to_string returns Err for the dirty sessions
\* of the keys in bad: each is logged and left out of dirty_sessions and of
\* sessions_to_clean; the tick goes on with the others.
TickSerializeErr ==
    /\ spc = "tick"
    /\ batchError' = <<>>
    /\ storeError' = NoError
    /\ \E sessions \in StoreListAll(store) :
          \E bad \in SUBSET {k \in Keys : store[k] # NoSession /\ store[k].dirty} :
              LET good == SelectSeq(DirtyOf(sessions), LAMBDA e : e.key \notin bad)
              IN  /\ bad # {}
                  /\ serializeError' = bad
                  /\ toClean' = good
                  /\ spc' = IF Len(good) = 0 THEN "tick" ELSE "upsert"
    /\ UNCHANGED <<store, db, key, connVars, nFrames, nSockets, history>>

\* UpsertBatch without the `continue` of the Err arm: the sessions of a
\* failed batch are marked clean all the same.
UpsertBatchNoContinue(failAt) ==
    /\ spc = "upsert"
    /\ LET r == DbUpsertSessionsBatch(db, BatchOf(toClean), failAt)
       IN  /\ db' = r.db
           /\ batchError' = IF r.ok THEN <<>> ELSE toClean
           /\ storeError' = NoError
           /\ serializeError' = {}
    /\ spc' = "clean"
    /\ UNCHANGED <<store, key, connVars, toClean, nFrames, nSockets, history>>

\* upsert_sessions_batch on the collected sessions; on Err the tick ends.
UpsertBatch(failAt) ==
    /\ spc = "upsert"
    /\ LET batch == BatchOf(toClean)
           r == DbUpsertSessionsBatch(db, batch, failAt)
       IN  /\ db' = r.db
           /\ IF r.ok
              THEN /\ spc' = "clean"
                   /\ UNCHANGED toClean
                   /\ unflushed' =
                        [k \in Keys |->
                            unflushed[k] /\
                            ~\E i \in 1..Len(batch) :
                                batch[i].key = k /\ Covered(k, batch[i].json)]
              ELSE /\ spc' = "tick"
                   /\ toClean' = <<>>
                   /\ UNCHANGED unflushed
           /\ batchError' = IF r.ok THEN <<>> ELSE toClean
           /\ storeError' = NoError
           /\ serializeError' = {}
    /\ UNCHANGED <<store, key, connVars, nFrames, nSockets, touched, closed,
                   applied>>

\* MarkClean without `session.dirty = false`.
MarkCleanKeepsFlag ==
    /\ spc = "clean"
    /\ batchError' = <<>>
    /\ storeError' = NoError
    /\ serializeError' = {}
    /\ store' = StoreSet(store, Head(toClean).key, Head(toClean).session)
    /\ toClean' = Tail(toClean)
    /\ spc' = IF Len(toClean) = 1 THEN "tick" ELSE "clean"
    /\ UNCHANGED <<db, key, connVars, nFrames, nSockets, history>>

\* The next persisted session is written back to memory with dirty = false.
MarkClean ==
    /\ spc = "clean"
    /\ batchError' = <<>>
    /\ storeError' = NoError
    /\ serializeError' = {}
    /\ LET e == Head(toClean)
       IN  /\ store' = StoreSet(store, e.key, [e.session EXCEPT !.dirty = FALSE])
           /\ unflushed' = [unflushed EXCEPT ![e.key] = FALSE]
    /\ toClean' = Tail(toClean)
    /\ spc' = IF Len(toClean) = 1 THEN "tick" ELSE "clean"
    /\ UNCHANGED <<db, key, connVars, nFrames, nSockets, touched, closed,
                   applied>>

\* A tick: list_all returned Err; it is logged and the task waits for the
\* next tick.
TickListErr ==
    /\ spc = "tick"
    /\ batchError' = <<>>
    /\ storeError' = StoreErr(Persistence, "list_all")
    /\ serializeError' = {}
    /\ UNCHANGED <<store, db, key, connVars, schedVars, nFrames, nSockets,
                   history>>

\* The set that writes the next persisted session back returned Err; a
\* warning is logged and the loop goes to the next session.
MarkCleanErr ==
    /\ spc = "clean"
    /\ batchError' = <<>>
    /\ storeError' = StoreErr(Persistence, "set")
    /\ serializeError' = {}
    /\ toClean' = Tail(toClean)
    /\ spc' = IF Len(toClean) = 1 THEN "tick" ELSE "clean"
    /\ UNCHANGED <<store, db, key, connVars, nFrames, nSockets, history>>

\* ------------------------------------------------------------ specification

\* A new process on an empty database; the connection tasks serve the same
\* key or two different keys.
Init ==
    /\ store = [k \in Keys |-> NoSession]
    /\ db = [k \in Keys |-> NoSession]
    /\ key \in {[c \in Conns |-> "k1"], [c \in Conns |-> IF c = "A" THEN "k1" ELSE "k2"]}
    /\ pc = [c \in Conns |-> "idle"]
    /\ session = [c \in Conns |-> NoSession]
    /\ msg = [c \in Conns |-> NoMsg]
    /\ result = [c \in Conns |-> "none"]
    /\ sent = [c \in Conns |-> <<>>]
    /\ spc = "tick"
    /\ toClean = <<>>
    /\ nFrames = 0
    /\ nSockets = 0
    /\ unflushed = [k \in Keys |-> FALSE]
    /\ touched = {}
    /\ closed = [k \in Keys |-> NoSession]
    /\ applied = [k \in Keys |-> NoSession]
    /\ batchError = <<>>
    /\ storeError = NoError
    /\ serializeError = {}

\* A connection task's steps when the durable repository answers every call,
\* its client sending text frames drawn from frames.
ConnAvail(c, frames) ==
    \/ \E o \in AttachOutcomes : AttachFromMemory(c, o)
    \/ AttachMiss(c)
    \/ AttachDb(c)
    \/ \E o \in AttachOutcomes : AttachSet(c, o)
    \/ ClientRead(c)
    \/ \E m \in frames : Receive(c, m)
    \/ Apply(c)
    \/ Continue(c)
    \/ ReceiveOther(c)
    \/ Close(c)
    \/ DetachFlush(c)
    \/ DetachDelete(c)

\* A connection task's steps on a repository call that fails.
ConnDbErr(c) ==
    \/ AttachDbErr(c)
    \/ DetachFlushErr(c)

ConnNext(c) ==
    \/ ConnAvail(c, TextFrames)
    \/ ConnDbErr(c)

\* The persistence task's steps when upsert_sessions_batch succeeds.
SchedAvail ==
    \/ Tick
    \/ UpsertBatch(Len(toClean) + 2)
    \/ MarkClean

SchedNext ==
    \/ SchedAvail
    \/ \E failAt \in 0..(Len(toClean) + 1) : UpsertBatch(failAt)

Next ==
    \/ \E c \in Conns : ConnNext(c)
    \/ SchedNext

\* Any number of sockets on the connection tasks, and the persistence task.
Spec == Init /\ [][Next]_vars

\* Both connection tasks serve the same key.
InitSame == Init /\ key = [c \in Conns |-> "k1"]

\* One connection task, socket after socket, and the persistence task.
NextSolo ==
    \/ ConnNext("A")
    \/ SchedNext

SpecSolo == InitSame /\ [][NextSolo]_vars

\* SpecSolo with clients that send only the three field-level updates.
NextSoloFields ==
    \/ ConnAvail("A", FieldMsgs)
    \/ ConnDbErr("A")
    \/ SchedNext

SpecSoloFields == InitSame /\ [][NextSoloFields]_vars

\* SpecSolo with the durable repository available throughout.
NextSoloAvail ==
    \/ ConnAvail("A", TextFrames)
    \/ SchedAvail

SpecSoloAvail == InitSame /\ [][NextSoloAvail]_vars

\* The connection tasks serve two different keys.
InitTwoKeys == Init /\ key["A"] # key["B"]

\* Two connection tasks on two keys, their sockets staying open, clients
\* sending position updates, and the persistence task.
NextTwoKeys ==
    \/ \E c \in Conns :
        \/ AttachMiss(c)
        \/ AttachDb(c)
        \/ AttachSet(c, "synced")
        \/ ClientRead(c)
        \/ \E m \in PositionMsgs : Receive(c, m)
        \/ Apply(c)
        \/ Continue(c)
    \/ SchedNext

SpecTwoKeys == InitTwoKeys /\ [][NextTwoKeys]_vars

\* SpecTwoKeys with serde_json::to_string free to fail in a tick.
NextTwoKeysSerialize ==
    \/ NextTwoKeys
    \/ TickSerializeErr

SpecTwoKeysSerialize == InitTwoKeys /\ [][NextTwoKeysSerialize]_vars

\* The one message each of two clients sends: A a position, B a speed, both
\* with version 1.
RaceMsg(c) ==
    IF c = "A"
    THEN [type |-> "UpdatePlaybackPosition", current_time |-> 10, version |-> 1]
    ELSE [type |-> "UpdatePlaybackSpeed", playback_speed |-> 2, version |-> 1]

\* Two connection tasks on one key, each attaching and handling its one
\* message, and the persistence task.
NextRace ==
    \/ \E c \in Conns :
        \/ \E o \in AttachOutcomes : AttachFromMemory(c, o)
        \/ AttachMiss(c)
        \/ AttachDb(c)
        \/ AttachDbErr(c)
        \/ \E o \in AttachOutcomes : AttachSet(c, o)
        \/ ClientRead(c)
        \/ Receive(c, RaceMsg(c))
        \/ Apply(c)
    \/ SchedNext

SpecRace == InitSame /\ [][NextRace]_vars

\* UpdatePlaybackPosition messages whose current_time differs from version
\* to version: 10, 20, 30, ...
PositionSeqMsgs ==
    {[type |-> "UpdatePlaybackPosition", current_time |-> 10 * (v + 1),
      version |-> v] : v \in Versions}

\* SpecSoloAvail with a client that sends only such messages.
NextSoloPositions ==
    \/ ConnAvail("A", PositionSeqMsgs)
    \/ SchedAvail

SpecSoloPositions == InitSame /\ [][NextSoloPositions]_vars

\* The steps a connection task takes by itself once it can: the awaits of
\* load_or_create_session, of handle_text_message and of the cleanup.  (The
\* opening of a socket, its frames and its close are the client's.)
ConnProgress(c) ==
    \/ AttachDb(c)
    \/ AttachSet(c, "synced")
    \/ Apply(c)
    \/ Continue(c)
    \/ DetachFlush(c)
    \/ DetachDelete(c)

\* SpecSoloPositions with the tokio runtime scheduling every task that can
\* run and the interval of the persistence task ticking for ever.
SpecSoloPositionsFair ==
    /\ SpecSoloPositions
    /\ WF_vars(ConnProgress("A"))
    /\ WF_vars(SchedAvail)

\* Rows an earlier run of the server may have left for a key: one written
\* by this version of TranscriptionSession and one that it cannot decode.
EarlierRows(k) ==
    {Garbage,
     [key |-> k, current_time |-> 10, playback_speed |-> 1, volume |-> 1,
      version |-> 1]}

\* A new process on a database in which an earlier run left a row for k1.
InitRestart ==
    /\ store = [k \in Keys |-> NoSession]
    /\ \E row \in EarlierRows("k1") :
          db = [k \in Keys |-> IF k = "k1" THEN row ELSE NoSession]
    /\ key = [c \in Conns |-> "k1"]
    /\ pc = [c \in Conns |-> "idle"]
    /\ session = [c \in Conns |-> NoSession]
    /\ msg = [c \in Conns |-> NoMsg]
    /\ result = [c \in Conns |-> "none"]
    /\ sent = [c \in Conns |-> <<>>]
    /\ spc = "tick"
    /\ toClean = <<>>
    /\ nFrames = 0
    /\ nSockets = 0
    /\ unflushed = [k \in Keys |-> FALSE]
    /\ touched = {}
    /\ closed = [k \in Keys |-> NoSession]
    /\ applied = [k \in Keys |-> NoSession]
    /\ batchError = <<>>
    /\ storeError = NoError
    /\ serializeError = {}

\* The state a failed batch leaves behind: on the first socket the update
\* (current_time 10, version 0) was accepted, a tick listed the session and
\* upsert_sessions_batch has just failed.
InitOutage ==
    LET s == [key |-> "k1", current_time |-> 10, playback_speed |-> 1,
              volume |-> 1, version |-> 0, dirty |-> TRUE]
    IN  /\ store = [k \in Keys |-> IF k = "k1" THEN s ELSE NoSession]
        /\ db = [k \in Keys |-> NoSession]
        /\ key = [c \in Conns |-> "k1"]
        /\ pc = [c \in Conns |-> IF c = "A" THEN "loop" ELSE "idle"]
        /\ session = [c \in Conns |-> NoSession]
        /\ msg = [c \in Conns |-> NoMsg]
        /\ result = [c \in Conns |-> "none"]
        /\ sent = [c \in Conns |-> <<>>]
        /\ spc = "tick"
        /\ toClean = <<>>
        /\ nFrames = 1
        /\ nSockets = 1
        /\ unflushed = [k \in Keys |-> k = "k1"]
        /\ touched = {"k1"}
        /\ closed = [k \in Keys |-> NoSession]
        /\ applied = [k \in Keys |-> IF k = "k1" THEN s ELSE NoSession]
        /\ batchError = <<[key |-> "k1", session |-> s]>>
        /\ storeError = NoError
        /\ serializeError = {}

\* From a failed batch on, the durable repository available again.
SpecAfterOutage == InitOutage /\ [][NextSoloAvail]_vars

\* A connection task's steps on a session store call that returns Err.
ConnStoreErr(c, frames) ==
    \/ AttachGetErr(c)
    \/ \E o \in AttachOutcomes : AttachSetLoadedErr(c, o)
    \/ AttachSetNewErr(c)
    \/ \E m \in frames : ReceiveGetErr(c, m)
    \/ ApplySetErr(c)
    \/ CloseGetErr(c)
    \/ DetachDeleteErr(c)

\* The persistence task's steps on a session store call that returns Err.
SchedStoreErr ==
    \/ TickListErr
    \/ MarkCleanErr

\* The text frames of a client that sends position updates and texts that
\* do not parse.
PositionFrames == PositionMsgs \cup {Malformed}

\* SpecSolo with a client that sends such frames.
NextSoloFrames ==
    \/ ConnAvail("A", PositionFrames)
    \/ ConnDbErr("A")
    \/ SchedNext

SpecSoloFrames == InitSame /\ [][NextSoloFrames]_vars

\* SpecSoloFrames after a restart.
SpecRestart == InitRestart /\ [][NextSoloFrames]_vars

\* SpecSoloFrames with the tokio runtime resuming the cleanup of
\* handle_socket whenever its await has returned: upsert_session returns, Ok
\* or Err, and session_store.delete returns.  (Nothing obliges a client to
\* open a socket, to send a frame or to close.)
SpecSoloFramesFair ==
    /\ SpecSoloFrames
    /\ WF_vars(DetachFlush("A") \/ DetachFlushErr("A"))
    /\ WF_vars(DetachDelete("A"))

\* One connection task, socket after socket, and the persistence task, with
\* a session store and a repository whose calls may fail.
NextStoreErr ==
    \/ NextSoloFrames
    \/ ConnStoreErr("A", PositionFrames)
    \/ SchedStoreErr

SpecStoreErr == InitSame /\ [][NextStoreErr]_vars

\* One message of each of the four ClientMessage kinds.
KindMsgs == {m \in ClientMsgs : m.version = 0}

\* Two connection tasks on one key, their clients sending such messages and
\* closing, the video found and the sends succeeding, the repository
\* available, the persistence task not running.
NextPairKinds ==
    \E c \in Conns :
        \/ AttachFromMemory(c, "synced")
        \/ AttachMiss(c)
        \/ AttachDb(c)
        \/ AttachSet(c, "synced")
        \/ ClientRead(c)
        \/ \E m \in KindMsgs : Receive(c, m)
        \/ Apply(c)
        \/ Continue(c)
        \/ Close(c)
        \/ DetachFlush(c)
        \/ DetachDelete(c)

SpecPairKinds == InitSame /\ [][NextPairKinds]_vars

\* Two connection tasks on one key, the persistence task not running (the
\* servers of the test suite do not spawn it).
NextPair == \E c \in Conns : ConnNext(c)

SpecPair == InitSame /\ [][NextPair]_vars

\* The TranscriptionSession values of key k over the values of the model.
SessionRecords(k) ==
    [key : {k}, current_time : {0} \cup TimeVals,
     playback_speed : {1} \cup SpeedVals, volume : {1} \cup VolumeVals,
     version : Versions, dirty : BOOLEAN]

\* ------------------------------------------------------------------ claims

\* The step of task c in which handle_text_message checks the version of the
\* message against the session it read and, when the check passes, sets.
ApplyStep(c) == pc[c] = "apply" /\ pc'[c] = "handled"

C2_AnyOlderMessageDropped ==
    [][\A c \in Conns :
        (ApplyStep(c) /\ msg[c].version < session[c].version) =>
            /\ store' = store
            /\ result'[c] = "ok"
            /\ sent' = sent]_vars

\* C2 amended: a field-level update whose version is below the version of
\* the session the handler read writes neither the store nor the repository,
\* returns Ok and sends nothing.
C2_OlderFieldUpdateDropped ==
    [][\A c \in Conns :
        (ApplyStep(c) /\ IsFieldMsg(msg[c])
            /\ msg[c].version < session[c].version) =>
            /\ store' = store
            /\ db' = db
            /\ result'[c] = "ok"
            /\ sent' = sent]_vars

\* C2 witness: a field-level update older than the stored session has been
\* handled, and the stored session is still the one that was read.
C2_Witness ==
    \E c \in Conns :
        /\ pc[c] = "handled" /\ result[c] = "ok"
        /\ IsFieldMsg(msg[c])
        /\ msg[c].version < session[c].version
        /\ store[key[c]] = session[c]
        /\ sent[c] = <<>>

\* C3: a SyncState is applied whatever its version: the stored session then
\* has the message's three playback values and exactly its version, dirty.
C3_SyncStateOverrides ==
    [][\A c \in Conns :
        (ApplyStep(c) /\ msg[c].type = "SyncState") =>
            LET m == msg[c]
                w == store'[key[c]]
            IN  /\ w.current_time = m.current_time
                /\ w.playback_speed = m.playback_speed
                /\ w.volume = m.volume
                /\ w.version = m.version
                /\ w.dirty = TRUE]_vars

\* C3 witness: the session was persisted at a higher version, the second
\* frame of the run is a SyncState of a lower version, and it is now stored.
C3_Witness ==
    \E c \in Conns :
        /\ pc[c] = "handled" /\ result[c] = "ok"
        /\ msg[c].type = "SyncState"
        /\ nFrames = 2
        /\ db[key[c]] # NoSession
        /\ db[key[c]].version > msg[c].version
        /\ store[key[c]] = session[c]
        /\ SessionStateOf(session[c]) =
              [current_time |-> msg[c].current_time,
               playback_speed |-> msg[c].playback_speed,
               volume |-> msg[c].volume, version |-> msg[c].version]

\* C4 as stated: the version of a session that stays in memory never
\* decreases, whatever step is taken.
C4_VersionNeverDecreases ==
    [][\A k \in Keys :
        (store[k] # NoSession /\ store'[k] # NoSession) =>
            store'[k].version >= store[k].version]_vars

\* A key is between a successful flush of its session and the write-back or
\* the removal that follows the flush.
InFlushWindow(k) ==
    \/ spc = "clean" /\ \E i \in 1..Len(toClean) : toClean[i].key = k
    \/ \E c \in Conns : key[c] = k /\ pc[c] \in {"flush", "delete"}

\* C5 as stated: a stored session is dirty if and only if it holds an
\* accepted change that no successful flush has written.
C5_DirtyIffUnflushed ==
    \A k \in Keys :
        store[k] # NoSession => (store[k].dirty <=> unflushed[k])

\* C5 amended: a stored session that holds an accepted change no successful
\* flush has written is dirty; a dirty session holds such a change except
\* between a successful flush and the write-back or removal that follows.
C5_UnflushedIsDirty ==
    \A k \in Keys :
        store[k] # NoSession =>
            /\ unflushed[k] => store[k].dirty = TRUE
            /\ (store[k].dirty /\ ~unflushed[k]) => InFlushWindow(k)

\* C5 witness: the persistence task has written the session and marked it
\* clean, and a later accepted message has made it dirty again.
C5_Witness ==
    \E c \in Conns :
        /\ pc[c] = "handled" /\ result[c] = "ok"
        /\ nFrames = 2
        /\ store[key[c]] # NoSession
        /\ store[key[c]].dirty /\ unflushed[key[c]]
        /\ db[key[c]] # NoSession
        /\ db[key[c]] # Serialize(store[key[c]])
        /\ spc = "tick"

\* C6 as stated: a step that removes a session from memory leaves no
\* connection of its key in the receive loop.
C6_EvictedOnlyByLastDetach ==
    [][\A k \in Keys :
        (store[k] # NoSession /\ store'[k] = NoSession) =>
            ~\E c \in Conns :
                key[c] = k /\ pc'[c] \in {"loop", "apply", "handled"}]_vars

\* handle_socket starts on task c for a new socket.
AttachStart(c) ==
    \/ AttachMiss(c)
    \/ \E o \in AttachOutcomes : AttachFromMemory(c, o)

\* C7: attach takes one of three paths.  A session in memory is used and
\* the store is not written; otherwise a decodable row is decoded into the
\* session, dirty = false; otherwise the session is new: 0, 1, 1, version 0,
\* dirty = false.  On the last two paths the session is stored, and the
\* StateSync sent is built from the session the path gave.
C7_AttachResolution ==
    [][\A c \in Conns :
        LET k == key[c]
            snapshot(s) ==
                <<[type |-> "VideoMetadata"],
                  [type |-> "StateSync",
                   session |-> [current_time |-> s.current_time,
                                playback_speed |-> s.playback_speed,
                                volume |-> s.volume, version |-> s.version]]>>
        IN  /\ (AttachStart(c) /\ store[k] # NoSession) =>
                    /\ store' = store /\ db' = db
                    /\ pc'[c] \in {"loop", "done"}
                    /\ pc'[c] = "loop" => sent'[c] = snapshot(store[k])
            /\ (AttachStart(c) /\ store[k] = NoSession) =>
                    /\ store' = store /\ db' = db
                    /\ pc'[c] = "attach_db"
            /\ (pc[c] = "attach_db" /\ pc'[c] # "attach_db") =>
                    /\ store' = store /\ db' = db
                    /\ IF db[k] # NoSession /\ db[k] # Garbage
                       THEN /\ pc'[c] = "set_loaded"
                            /\ session'[c] =
                                 [key |-> k,
                                  current_time |-> db[k].current_time,
                                  playback_speed |-> db[k].playback_speed,
                                  volume |-> db[k].volume,
                                  version |-> db[k].version, dirty |-> FALSE]
                       ELSE /\ pc'[c] = "set_new"
                            /\ session'[c] =
                                 [key |-> k, current_time |-> 0,
                                  playback_speed |-> 1, volume |-> 1,
                                  version |-> 0, dirty |-> FALSE]
            /\ (pc[c] \in {"set_loaded", "set_new"} /\ pc'[c] # pc[c]) =>
                    /\ store' = [store EXCEPT ![k] = session[c]]
                    /\ db' = db
                    /\ pc'[c] \in {"loop", "done"}
                    /\ pc'[c] = "loop" => sent'[c] = snapshot(session[c])]_vars

\* C7 witness: the second socket of the run found nothing in memory and a
\* row of version above 0 in the repository, and holds the decoded session.
C7_Witness ==
    \E c \in Conns :
        /\ pc[c] = "set_loaded"
        /\ nSockets = 2
        /\ store[key[c]] = NoSession
        /\ db[key[c]] # NoSession
        /\ session[c].version > 0 /\ session[c].current_time = 10
        /\ Serialize(session[c]) = db[key[c]]
        /\ session[c].dirty = FALSE

\* C8 as stated: after updates, close and detach on a key, the StateSync the
\* next socket of the key receives is the session as it was in memory when
\* the socket before it closed.
C8_RoundTrip ==
    [][\A c \in Conns :
        (/\ pc[c] \in {"idle", "done", "set_loaded", "set_new"}
         /\ pc'[c] = "loop"
         /\ key[c] \in touched
         /\ closed[key[c]] # NoSession) =>
            sent'[c] = <<VideoMetadataMsg, StateSyncMsg(closed[key[c]])>>]_vars

\* C9: the cleanup flushes exactly when the session it read again is dirty,
\* and that session is then the one the last accepted message stored; the
\* flush leaves in the repository that session's current_time,
\* playback_speed, volume and version, and the session is still in memory.
C9_DetachFlush ==
    [][\A c \in Conns :
        LET k == key[c]
        IN  /\ (pc[c] = "loop" /\ pc'[c] \in {"flush", "delete"}) =>
                    /\ session'[c] = store[k]
                    /\ pc'[c] = "flush" <=>
                            (store[k] # NoSession /\ store[k].dirty)
                    /\ pc'[c] = "flush" => store[k] = applied[k]
                    /\ store' = store /\ db' = db
            /\ (pc[c] = "flush" /\ pc'[c] = "delete" /\ DetachFlush(c)) =>
                    /\ session[c].dirty
                    /\ db'[k] = [key |-> k,
                                 current_time |-> session[c].current_time,
                                 playback_speed |-> session[c].playback_speed,
                                 volume |-> session[c].volume,
                                 version |-> session[c].version]
                    /\ store' = store
            /\ (pc[c] = "delete" /\ pc'[c] = "done") =>
                    /\ store'[k] = NoSession
                    /\ db' = db]_vars

\* C9 witness: the row was written by an earlier socket; the cleanup of the
\* second socket has flushed a session of a higher version, which is now the
\* row, and has not yet removed the session from memory.
C9_Witness ==
    \E c \in Conns :
        /\ pc[c] = "delete"
        /\ nSockets = 2 /\ nFrames = 2
        /\ session[c] # NoSession /\ session[c].dirty
        /\ session[c].version = 2
        /\ db[key[c]] = Serialize(session[c])
        /\ store[key[c]] = session[c]
        /\ spc = "tick"

\* C10: only dirty sessions are written: every session the persistence task
\* collects for its batch is dirty, the cleanup flushes only a dirty session,
\* and a key for which no message was ever accepted has no row.
C10_CleanNeverWritten ==
    /\ \A i \in 1..Len(toClean) : toClean[i].session.dirty = TRUE
    /\ \A c \in Conns : pc[c] = "flush" => session[c].dirty = TRUE
    /\ \A k \in Keys \ touched : db[k] = NoSession

\* C10 witness: a socket attached for a new key, sent a frame that was not
\* accepted, closed and detached; the session is gone and there is no row.
C10_Witness ==
    /\ pc["A"] = "done"
    /\ nSockets = 1 /\ nFrames = 1
    /\ touched = {}
    /\ store["k1"] = NoSession
    /\ db["k1"] = NoSession
    /\ closed["k1"] = NewSession("k1")

\* C11: the write-back that follows a successful batch stores the flushed
\* session with dirty = false; a session becomes dirty again only by an
\* accepted message; a tick takes into its batch only sessions that are
\* dirty in memory, and with none dirty it calls the repository not at all.
C11_NotReflushed ==
    [][/\ (spc = "clean" /\ toClean' # toClean) =>
            LET e == Head(toClean)
            IN  /\ store'[e.key] # NoSession
                /\ store'[e.key].dirty = FALSE
                /\ Serialize(store'[e.key]) = Serialize(e.session)
       /\ \A k \in Keys :
            (store[k] # NoSession /\ ~store[k].dirty
                /\ store'[k] # NoSession /\ store'[k].dirty) =>
                \E c \in Conns :
                    /\ key[c] = k /\ ApplyStep(c)
                    /\ msg[c].type = "SyncState"
                        \/ msg[c].version >= session[c].version
       /\ (spc = "tick" /\ spc' = "upsert") =>
            /\ toClean' # <<>>
            /\ \A i \in 1..Len(toClean') :
                    /\ toClean'[i].session = store[toClean'[i].key]
                    /\ store[toClean'[i].key].dirty = TRUE
       /\ (spc = "tick"
            /\ \A k \in Keys : store[k] = NoSession \/ ~store[k].dirty) =>
            /\ spc' = "tick"
            /\ toClean' = <<>>]_vars

\* C11 witness: on the first socket of the run, still open, the persistence
\* task has flushed the session and written it back clean, and waits for its
\* next tick with nothing dirty.
C11_Witness ==
    /\ pc["A"] = "loop" /\ nSockets = 1
    /\ spc = "tick" /\ toClean = <<>>
    /\ store["k1"] # NoSession
    /\ store["k1"].dirty = FALSE
    /\ store["k1"].version = 1
    /\ db["k1"] = Serialize(store["k1"])
    /\ unflushed["k1"] = FALSE

\* C12: a step in which upsert_sessions_batch fails ends the tick with no
\* write-back pending, and changes neither the store, nor the repository,
\* nor what any client has been sent.
C12_FailedBatchLeavesStore ==
    [][batchError' # <<>> =>
            /\ spc = "upsert" /\ batchError' = toClean
            /\ spc' = "tick"
            /\ toClean' = <<>>
            /\ store' = store
            /\ db' = db
            /\ sent' = sent
            /\ pc' = pc]_vars

\* C12 witness: a batch has just failed; its session is in memory as the
\* tick listed it, dirty, with no row, and the persistence task waits for
\* the next tick.
C12_Witness ==
    /\ Len(batchError) = 1
    /\ spc = "tick" /\ toClean = <<>>
    /\ store["k1"] = batchError[1].session
    /\ store["k1"].dirty = TRUE
    /\ unflushed["k1"] = TRUE
    /\ db["k1"] = NoSession

\* C13 as stated: a failed batch leaves the persistence task waiting for its
\* next tick, and when a later tick has flushed a session left dirty by the
\* failed batch and written it back, the session is clean in memory and its
\* row equals it.
C13_RetryLeavesInSync ==
    [][/\ batchError' # <<>> => spc' = "tick"
       /\ (spc = "clean" /\ toClean' # toClean) =>
            LET k == Head(toClean).key
            IN  /\ store'[k] # NoSession
                /\ store'[k].dirty = FALSE
                /\ db'[k] = Serialize(store'[k])]_vars

\* The step is one of the persistence task.
SchedStep == spc' # spc \/ toClean' # toClean

\* C14 as stated: a step of the persistence task leaves the current_time,
\* playback_speed, volume and version of every stored session as they were,
\* adds and removes none, and changes dirty only from true to false; a step
\* of a connection task never changes dirty from true to false.
C14_SchedulerKeepsContent ==
    [][\A k \in Keys :
        /\ SchedStep =>
            IF store[k] = NoSession THEN store'[k] = NoSession
            ELSE /\ store'[k] # NoSession
                 /\ Serialize(store'[k]) = Serialize(store[k])
                 /\ store'[k].dirty => store[k].dirty
        /\ (~SchedStep /\ store[k] # NoSession /\ store'[k] # NoSession
                /\ store[k].dirty) => store'[k].dirty]_vars

\* C16 as stated: while a connection has an UpdatePlaybackPosition that
\* passed the version check and nothing after it, the session is in memory
\* with the current_time of that message.
C16_LastPositionStored ==
    \A c \in Conns :
        (/\ pc[c] = "handled" /\ result[c] = "ok"
         /\ msg[c].type = "UpdatePlaybackPosition"
         /\ session[c].version = msg[c].version
         /\ session[c].dirty) =>
            /\ store[key[c]] # NoSession
            /\ store[key[c]].current_time = msg[c].current_time

\* C15: when A has handled UpdatePlaybackPosition(10, version 1) and B has
\* handled UpdatePlaybackSpeed(2, version 1) on the same key, both returned
\* Ok, and the stored session has version 1, current_time 10 or
\* playback_speed 2, and in every field the initial or a sent value.
C15_ConcurrentUpdates ==
    (\A c \in Conns : pc[c] = "handled" /\ msg[c] = RaceMsg(c)) =>
        /\ \A c \in Conns : result[c] = "ok"
        /\ store["k1"] # NoSession
        /\ store["k1"].version = 1
        /\ store["k1"].current_time = 10 \/ store["k1"].playback_speed = 2
        /\ store["k1"].current_time \in {0, 10}
        /\ store["k1"].playback_speed \in {1, 2}
        /\ store["k1"].volume = 1

\* C15 witness: both tasks read the session at version 0; A's set came
\* first and B's set overwrote it: the speed is stored, the position lost.
C15_Witness ==
    /\ \A c \in Conns : pc[c] = "handled" /\ result[c] = "ok"
    /\ session["A"].current_time = 10 /\ session["A"].playback_speed = 1
    /\ session["B"].current_time = 0 /\ session["B"].playback_speed = 2
    /\ store["k1"] = session["B"]
    /\ store["k1"].version = 1

\* C17: a step of upsert_sessions_batch either succeeds, and then the row of
\* every key of the batch is the batch's snapshot for it and no other row
\* changes, or fails, and then no row changes.
C17_BatchAtomic ==
    [][(spc = "upsert" /\ spc' # "upsert") =>
            IF spc' = "clean"
            THEN /\ batchError' = <<>>
                 /\ \A i \in 1..Len(toClean) :
                        db'[toClean[i].key] =
                            [key |-> toClean[i].key,
                             current_time |-> toClean[i].session.current_time,
                             playback_speed |-> toClean[i].session.playback_speed,
                             volume |-> toClean[i].session.volume,
                             version |-> toClean[i].session.version]
                 /\ \A k \in Keys :
                        (\A i \in 1..Len(toClean) : toClean[i].key # k) =>
                            db'[k] = db[k]
            ELSE /\ batchError' = toClean
                 /\ db' = db]_vars

\* C17 witness: a batch of the sessions of both keys has just failed, and
\* neither key has a row.
C17_Witness ==
    /\ Len(batchError) = 2
    /\ batchError[1].key # batchError[2].key
    /\ \A i \in 1..2 : store[batchError[i].key] = batchError[i].session
    /\ \A k \in Keys : db[k] = NoSession

\* C18: a connection task handles one message at a time: a frame is taken
\* only in the receive loop with no message in hand, a message is in hand
\* only between its receipt and the return of handle_text_message, and from
\* the start of the cleanup to the end of the task none is taken.
C18_OneMessageAtATime ==
    [][\A c \in Conns :
        /\ (msg'[c] # msg[c] /\ msg'[c] # NoMsg) =>
                /\ pc[c] = "loop"
                /\ msg[c] = NoMsg /\ result[c] = "none"
                /\ nFrames' = nFrames + 1
                /\ pc'[c] \in {"apply", "handled"}
        /\ msg[c] # NoMsg <=> pc[c] \in {"apply", "handled"}
        /\ pc[c] = "apply" => pc'[c] \in {"apply", "handled"}
        /\ pc[c] = "handled" =>
                \/ pc'[c] = "handled" /\ msg'[c] = msg[c]
                \/ pc'[c] = "loop" /\ msg'[c] = NoMsg
        /\ pc[c] \in {"flush", "delete"} =>
                /\ pc'[c] \in {"flush", "delete", "done"}
                /\ msg'[c] = NoMsg
                /\ nFrames' = nFrames]_vars

\* C18 witness: on one socket the first message was handled and stored, and
\* the second is in hand, read from the store but not yet checked.
C18_Witness ==
    \E c \in Conns :
        /\ pc[c] = "apply"
        /\ nSockets = 1 /\ nFrames = 2
        /\ msg[c].type = "UpdateVolume" /\ msg[c].version = 2
        /\ applied[key[c]] # NoSession
        /\ applied[key[c]].version = 1
        /\ session[c] = applied[key[c]]

C22_StoreErrClosesAttach ==
    [][\A c \in Conns :
        (storeError'.task = c
            /\ pc[c] \in {"idle", "done", "set_loaded", "set_new"}) =>
            pc'[c] = "done" /\ sent'[c] = <<>>]_vars

\* C23: the cleanup makes at most one flush attempt, which changes neither
\* the store nor any socket, and whatever its outcome the next step of the
\* task removes the record from the store, sends nothing, writes nothing
\* to the repository and ends the task.
C23_EvictedWhateverTheFlush ==
    [][\A c \in Conns :
        /\ (pc[c] = "loop" /\ pc'[c] \notin {"loop", "apply", "handled"}) =>
                /\ pc'[c] \in {"flush", "delete"}
                /\ pc'[c] = "delete" <=>
                        (store[key[c]] = NoSession \/ ~store[key[c]].dirty)
                /\ store' = store /\ db' = db /\ sent' = sent
        /\ (pc[c] = "flush" /\ pc'[c] # "flush") =>
                /\ pc'[c] = "delete"
                /\ db' \in {db, DbUpsertSession(db, key[c],
                                                Serialize(session[c]))}
                /\ store' = store /\ sent' = sent
        /\ (pc[c] = "delete" /\ pc'[c] # "delete") =>
                /\ pc'[c] = "done"
                /\ store' = StoreDelete(store, key[c])
                /\ db' = db /\ sent' = sent]_vars

\* C23 witness: the one accepted update was dirty at the close, the flush
\* failed, and the task has ended with the record gone from the store and
\* no row in the repository.
C23_Witness ==
    \E c \in Conns :
        /\ pc[c] = "done" /\ nSockets = 1
        /\ touched = {key[c]}
        /\ closed[key[c]] # NoSession /\ closed[key[c]].dirty
        /\ store[key[c]] = NoSession
        /\ db[key[c]] = NoSession
        /\ spc = "tick" /\ sent[c] = <<>>

\* C24: a socket carries at most VideoMetadata and then StateSync, both
\* put on it by the step that ends the attach; from the receive loop on its
\* task sends nothing, and neither a step of the persistence task nor a step
\* with a failed batch or a failed session store call after the attach
\* sends anything.
C24_NothingAfterInitial ==
    [][\A c \in Conns :
        /\ (sent'[c] # sent[c] /\ sent'[c] # <<>>) =>
                /\ pc[c] \in {"idle", "done", "set_loaded", "set_new"}
                /\ sent[c] = <<>> \/ pc[c] \in {"idle", "done"}
                /\ \/ sent'[c] = <<VideoMetadataMsg>>
                   \/ /\ Len(sent'[c]) = 2
                      /\ sent'[c][1] = VideoMetadataMsg
                      /\ sent'[c][2].type = "StateSync"
        /\ pc[c] \in {"loop", "apply", "handled", "flush", "delete"} =>
                \/ sent'[c] = sent[c]
                \/ sent'[c] = <<>> /\ pc' = pc /\ store' = store /\ db' = db
        /\ (SchedStep \/ batchError' # <<>>
                \/ storeError'.task = Persistence) => sent' = sent
        /\ (storeError'.task = c
                /\ pc[c] \notin {"idle", "done", "set_loaded", "set_new"}) =>
                sent' = sent]_vars

\* C24 witness: the client has read the two initial messages, its update
\* passed the version check, session_store.set returned Err, and nothing
\* is on the socket.
C24_Witness ==
    \E c \in Conns :
        /\ pc[c] = "handled" /\ result[c] = "err"
        /\ storeError = StoreErr(c, "set")
        /\ msg[c].type = "UpdatePlaybackPosition"
        /\ sent[c] = <<>>

\* C25: on the store of every reachable state, for every key k and every
\* session r: get of an absent key is none and delete of it leaves the
\* store as it is; after set(k, r), get(k) is r whatever was stored, every
\* list_all has exactly one entry for k, which is r, and the other keys are
\* as before; after delete(k), get(k) is none and the other keys are as
\* before.
C25_StoreIsMap ==
    \A k \in Keys :
        /\ store[k] = NoSession =>
                /\ StoreGet(store, k) = NoSession
                /\ StoreDelete(store, k) = store
        /\ LET d == StoreDelete(store, k)
           IN  /\ StoreGet(d, k) = NoSession
               /\ \A j \in Keys \ {k} : StoreGet(d, j) = StoreGet(store, j)
               /\ \A l \in StoreListAll(d) :
                      \A i \in 1..Len(l) : l[i].key # k
        /\ \A r \in SessionRecords(k) :
              LET s == StoreSet(store, k, r)
              IN  /\ StoreGet(s, k) = r
                  /\ \A j \in Keys \ {k} : StoreGet(s, j) = StoreGet(store, j)
                  /\ \A l \in StoreListAll(s) :
                        /\ Cardinality({i \in 1..Len(l) : l[i].key = k}) = 1
                        /\ \A i \in 1..Len(l) :
                              /\ l[i].session = StoreGet(s, l[i].key)
                              /\ l[i].session # NoSession

\* C25 witness: on the first socket a set created the record and a set
\* replaced it, the cleanup deleted it, and on the second socket the get of
\* load_or_create_session has found none.
C25_Witness ==
    \E c \in Conns :
        /\ pc[c] = "attach_db" /\ nSockets = 2
        /\ touched = {key[c]}
        /\ applied[key[c]] # NewSession(key[c])
        /\ store[key[c]] = NoSession
        /\ spc = "tick"

\* C26: once the n-th frame of the run has been accepted, either a later
\* frame is processed or the row of its key eventually holds that update's
\* current_time and version.
C26_AcceptedEventuallyDurable ==
    \A c \in Conns : \A n \in 1..MaxFrames :
        [](( /\ pc[c] = "handled" /\ result[c] = "ok"
             /\ nFrames = n
             /\ msg[c].type = "UpdatePlaybackPosition"
             /\ session[c].dirty
             /\ session[c].version = msg[c].version
             /\ session[c].current_time = msg[c].current_time
             /\ applied[key[c]] = session[c] )
            => <>( \/ nFrames > n
                   \/ /\ db[key[c]] # NoSession
                      /\ db[key[c]].version = applied[key[c]].version
                      /\ db[key[c]].current_time
                           = applied[key[c]].current_time ))

\* C27: a stored session with dirty = false has the current_time,
\* playback_speed, volume and version of its row, or has no row and is the
\* new session (0, 1, 1, version 0).
C27_CleanIsInSync ==
    \A k \in Keys :
        (store[k] # NoSession /\ ~store[k].dirty) =>
            IF db[k] = NoSession
            THEN SessionStateOf(store[k]) = SessionStateOf(NewSession(k))
            ELSE /\ db[k] # Garbage
                 /\ SessionStateOf(store[k]) = SessionStateOf(db[k])

\* C28: the get and the set of a field-level update are two steps: the get
\* writes nothing, and the set stores the copy read by the get with the
\* message's field and version also when the stored session has changed
\* since the get, so that the other fields go back to the values read.
C28_SetIgnoresLaterWrites ==
    [][\A c \in Conns :
        /\ (pc[c] = "loop" /\ pc'[c] = "apply") =>
                store' = store /\ session'[c] = store[key[c]]
        /\ (ApplyStep(c) /\ IsFieldMsg(msg[c])
                /\ msg[c].version >= session[c].version
                /\ store[key[c]] # session[c]) =>
                /\ result'[c] = "ok"
                /\ store'[key[c]] = ApplyMsg(session[c], msg[c])]_vars

\* C28 witness: both tasks read the session (0, 1, 1, version 0); B passed
\* the check and its set is the stored session, with the speed it sent; A
\* holds the copy it read, its message passes the check against that copy,
\* and its set, the next step of A, stores that copy with A's position and
\* the speed 1.
C28_Witness ==
    /\ pc["B"] = "handled" /\ result["B"] = "ok"
    /\ session["B"] = ApplyMsg(NewSession("k1"), RaceMsg("B"))
    /\ store["k1"] = session["B"]
    /\ store["k1"].playback_speed = 2
    /\ pc["A"] = "apply"
    /\ session["A"] = NewSession("k1")
    /\ Accepts(session["A"], msg["A"])
    /\ ApplyMsg(session["A"], msg["A"]).playback_speed = 1

\* C29: a write-back step of the persistence task for a key that has no
\* stored session leaves the key without a stored session.
C29_EvictedStaysEvicted ==
    [][(spc = "clean" /\ toClean' # toClean) =>
            LET k == Head(toClean).key
            IN  store[k] = NoSession => store'[k] = NoSession]_vars

\* C30: with clients that send only field-level updates, no step lowers
\* the version of a row or removes a row.
C30_RowVersionNeverDecreases ==
    [][\A k \in Keys :
        db[k] # NoSession =>
            /\ db'[k] # NoSession
            /\ db'[k].version >= db[k].version]_vars

\* C31: the set that ends load_or_create_session leaves a session that is
\* already stored for the key as it is.
C31_AttachKeepsStored ==
    [][\A c \in Conns :
        (pc[c] \in {"set_loaded", "set_new"} /\ pc'[c] # pc[c]
            /\ store[key[c]] # NoSession) =>
            store'[key[c]] = store[key[c]]]_vars

\* C32: every stored session is of a key for which a connection task is
\* between the start of load_or_create_session and the end of its cleanup.
C32_StoredHasConnection ==
    \A k \in Keys :
        store[k] # NoSession =>
            \E c \in Conns : key[c] = k /\ pc[c] \notin {"idle", "done"}

\* C33: when get_session returns no row, a row that does not decode or an
\* Err, load_or_create_session goes on with the new session (0, 1, 1,
\* version 0, clean); its set stores that session, and when the video is
\* found and the sends succeed the socket carries VideoMetadata and the
\* StateSync of the new session.  Neither step writes the repository.
C33_ReadFailureIsMiss ==
    [][\A c \in Conns :
        /\ (pc[c] = "attach_db" /\ pc'[c] # "attach_db") =>
                /\ db' = db /\ store' = store /\ sent' = sent
                /\ \/ /\ pc'[c] = "set_new"
                      /\ session'[c] = NewSession(key[c])
                   \/ /\ db[key[c]] \notin {NoSession, Garbage}
                      /\ pc'[c] = "set_loaded"
                      /\ SessionStateOf(session'[c])
                            = SessionStateOf(db[key[c]])
                      /\ ~session'[c].dirty
        /\ (pc[c] = "set_new" /\ pc'[c] # "set_new") =>
                /\ db' = db
                /\ store'[key[c]] = NewSession(key[c])
                /\ pc'[c] \in {"loop", "done"}
                /\ pc'[c] = "loop" =>
                        sent'[c] = <<VideoMetadataMsg,
                                     StateSyncMsg(NewSession(key[c]))>>]_vars

\* C33 witness: the row of the key does not decode, and the connection is
\* in the receive loop with the new session stored and its StateSync sent,
\* the row as it was.
C33_Witness ==
    \E c \in Conns :
        /\ pc[c] = "loop" /\ nSockets = 1
        /\ db[key[c]] = Garbage
        /\ store[key[c]] = NewSession(key[c])
        /\ sent[c] = <<VideoMetadataMsg, StateSyncMsg(NewSession(key[c]))>>

\* C34: a tick step in which sessions fail to serialize changes neither the
\* store nor the repository, leaves exactly those sessions out of
\* sessions_to_clean and takes every other dirty session into it, going on
\* to upsert_sessions_batch when one is left; and no step of the
\* persistence task writes the stored session or the row of a key that is
\* not in sessions_to_clean.
C34_UnserializableLeftOut ==
    [][/\ serializeError' # {} =>
            /\ spc = "tick"
            /\ store' = store /\ db' = db /\ sent' = sent
            /\ \A k \in serializeError' : store'[k].dirty
            /\ \A i \in 1..Len(toClean') :
                    toClean'[i].key \notin serializeError'
            /\ \A k \in Keys \ serializeError' :
                    (store[k] # NoSession /\ store[k].dirty) =>
                        Cardinality({i \in 1..Len(toClean') :
                                        /\ toClean'[i].key = k
                                        /\ toClean'[i].session = store[k]}) = 1
            /\ spc' = IF toClean' = <<>> THEN "tick" ELSE "upsert"
       /\ (spc = "upsert" /\ spc' = "clean") =>
            /\ store' = store
            /\ \A k \in Keys :
                    IF \E i \in 1..Len(toClean) : toClean[i].key = k
                    THEN \E i \in 1..Len(toClean) :
                            /\ toClean[i].key = k
                            /\ db'[k] = Serialize(toClean[i].session)
                    ELSE db'[k] = db[k]
       /\ (spc = "clean" /\ toClean' # toClean) =>
            /\ db' = db
            /\ store'[Head(toClean).key] # NoSession
            /\ ~store'[Head(toClean).key].dirty
            /\ \A k \in Keys \ {Head(toClean).key} : store'[k] = store[k]]_vars

\* C34 witness: the tick just taken found the sessions of both keys dirty;
\* the one of k1 failed to serialize and is still stored dirty, with no
\* row, and the one of k2 alone is in sessions_to_clean, on its way to
\* upsert_sessions_batch and the write-back.
C34_Witness ==
    /\ serializeError = {"k1"}
    /\ spc = "upsert"
    /\ Len(toClean) = 1 /\ toClean[1].key = "k2"
    /\ toClean[1].session = store["k2"]
    /\ store["k1"] # NoSession /\ store["k1"].dirty
    /\ store["k2"].dirty
    /\ db["k1"] = NoSession

\* C35: the step that takes a message of any of the four kinds while the
\* key has no stored session returns Err with the store, the repository and
\* the sockets as they were, and the task's next step is back in the
\* receive loop, again with nothing written.
C35_NoRecordNoWrite ==
    [][\A c \in Conns :
        /\ (msg[c] = NoMsg /\ msg'[c] \in ClientMsgs
                /\ store[key[c]] = NoSession) =>
                /\ store' = store /\ db' = db /\ sent' = sent
                /\ pc'[c] = "handled" /\ result'[c] = "err"
        /\ (pc[c] = "handled" /\ result[c] = "err" /\ pc'[c] # pc[c]) =>
                /\ store' = store /\ db' = db /\ sent' = sent
                /\ pc'[c] = "loop" /\ msg'[c] = NoMsg]_vars

\* C35 witness: the other connection of the key has detached and removed
\* the session; this one's SyncState returned Err, and the key has neither
\* a stored session nor a row.
C35_Witness ==
    \E c, o \in Conns :
        /\ c # o /\ key[c] = key[o]
        /\ pc[o] = "done"
        /\ pc[c] = "handled" /\ result[c] = "err"
        /\ msg[c].type = "SyncState"
        /\ store[key[c]] = NoSession
        /\ db[key[c]] = NoSession

\* C36: the entries the persistence task holds are those list_all
\* returned: no step of a connection task, a set or a delete among them,
\* changes them; the persistence task changes them only by dropping the
\* head it writes back (or all of them on a failed batch); and the store
\* changes for a key held in an entry only by a connection task's set or
\* delete or by the write-back of that entry.
C36_ListIsCopy ==
    [][/\ (connVars' # connVars \/ nSockets' # nSockets) =>
            toClean' = toClean /\ spc' = spc
       /\ (spc = "tick" /\ toClean' # <<>>) =>
            /\ store' = store
            /\ \A i \in 1..Len(toClean') :
                    toClean'[i].session = store[toClean'[i].key]
       /\ spc = "upsert" =>
            \/ toClean' = toClean
            \/ toClean' = <<>> /\ batchError' = toClean
       /\ (spc = "upsert" /\ spc' # "upsert") => store' = store
       /\ spc = "clean" =>
            \/ toClean' = toClean
            \/ /\ toClean' = Tail(toClean)
               /\ store' = StoreSet(store, Head(toClean).key,
                                    [Head(toClean).session
                                        EXCEPT !.dirty = FALSE])]_vars

\* C36 witness: after list_all returned the session at version 0, a set
\* stored version 1; the entry the persistence task holds is still the
\* session at version 0, dirty, and has not been written back.
C36_Witness ==
    /\ spc = "clean" /\ Len(toClean) = 1
    /\ toClean[1].key = "k1"
    /\ toClean[1].session.version = 0 /\ toClean[1].session.dirty
    /\ store["k1"] # NoSession
    /\ store["k1"].version = 1
    /\ store["k1"] = applied["k1"]

\* C37: a connection task leaves the receive loop only into the cleanup,
\* to the flush exactly when the record it reads is dirty; from the flush
\* it eventually reaches the delete, and from the delete it eventually
\* ends, its record removed from the store.
C37_DetachCompletes ==
    /\ [][\A c \in Conns :
            (pc[c] = "loop" /\ pc'[c] \notin {"loop", "apply", "handled"}) =>
                /\ pc'[c] \in {"flush", "delete"}
                /\ pc'[c] = "flush" <=>
                        (store[key[c]] # NoSession /\ store[key[c]].dirty)]_vars
    /\ \A c \in Conns :
        /\ [](pc[c] = "flush" => <>(pc[c] = "delete"))
        /\ [](pc[c] = "delete" =>
                <>(/\ pc[c] = "done"
                   /\ session[c] = NoSession
                   /\ store[key[c]] = NoSession))

\* C37 witness: the socket was closed with a dirty record, the flush wrote
\* it to the repository, the delete removed it and the task has ended.
C37_Witness ==
    \E c \in Conns :
        /\ pc[c] = "done" /\ session[c] = NoSession /\ nSockets = 1
        /\ closed[key[c]] # NoSession /\ closed[key[c]].dirty
        /\ closed[key[c]] = applied[key[c]]
        /\ db[key[c]] = Serialize(closed[key[c]])
        /\ store[key[c]] = NoSession
        /\ ~unflushed[key[c]]

====
